---- MODULE Spec2Model ----
(***************************************************************************)
(* Natural-language blog search: query refinement, structured extraction,  *)
(* search execution and narration (services/llm_service.py,                *)
(* services/search_service.py, api/main.py).                               *)
(*                                                                         *)
(* A text is a sequence of tokens.  A token is one character ("{", "}",    *)
(* the double quote DQ, the backtick BT, ...) or a word that holds none of *)
(* the characters the code searches for ("json", "index", ...).            *)
(* Python's 0-based str operations are modelled on these sequences.        *)
(***************************************************************************)
EXTENDS Integers, Sequences, FiniteSets, TLC

VARIABLES
    pc,          \* position of the request handler
    query,       \* request.query of the request in progress
    size,        \* request.size of the request in progress
    refined,     \* what refine_query returned to natural_search
    calls,       \* the outbound calls of this request, in order
    sent,        \* what SearchService.search handed to the engine
    searchOut,   \* what SearchService.search returned or raised
    analysis,    \* what process_results returned
    response,    \* what the endpoint answered
    articles,    \* MappingView.fields of llm_service.articles
    users,       \* MappingView.fields of llm_service.users
    text,        \* input of the function taken on its own
    parts,       \* how the input of _extract_json was put together
    extracted,   \* outcome of _extract_json under SpecExtract
    direct,      \* index and query of the direct request in progress
    searchArgs,  \* the arguments SearchService.search was called with
    validations, \* the calls of SearchService.validate_query
    file,        \* the mapping file from_file reads under SpecDigest
    sheet,       \* what cheatsheet returned last under SpecDigest
    cleaned,     \* cleaned_results of process_results under SpecPrompt
    run          \* one run of main.py under SpecLoad

\* the state of the functions taken on their own
pureVars == <<text, parts, extracted, file, sheet, cleaned, run>>

vars == <<pc, query, size, refined, calls, sent, searchOut, analysis,
          response, articles, users, direct, searchArgs, validations, pureVars>>

-----------------------------------------------------------------------------
(* Characters and words *)

DQ == "\""
BS == "\\"
SP == " "
NL == "NL"      \* the newline character
TAB == "TAB"    \* the tab character

Whitespace == {SP, NL, TAB}

BT == "BT"      \* the backtick character

FenceOpen == <<BT, BT, BT, "json">>   \* three backticks and the word json
Fence == <<BT, BT, BT>>               \* three backticks

-----------------------------------------------------------------------------
(* Python str operations, 0-based *)

Min(a, b) == IF a < b THEN a ELSE b
Max(a, b) == IF a > b THEN a ELSE b

\* s[a:b]
PySlice(s, a, b) ==
    LET n == Len(s)
        lo == IF a < 0 THEN Max(n + a, 0) ELSE Min(a, n)
        hi == IF b < 0 THEN Max(n + b, 0) ELSE Min(b, n)
    IN  IF lo >= hi THEN <<>> ELSE SubSeq(s, lo + 1, hi)

\* pat occurs in s at 0-based offset i
MatchAt(s, pat, i) ==
    /\ i >= 0
    /\ i + Len(pat) <= Len(s)
    /\ \A j \in 1..Len(pat) : s[i + j] = pat[j]

\* s.find(pat, start)
PyFind(s, pat, start) ==
    LET hits == {i \in start..(Len(s) - Len(pat)) : MatchAt(s, pat, i)}
    IN  IF hits = {} THEN -1 ELSE CHOOSE i \in hits : \A j \in hits : i <= j

\* s.rfind(pat)
PyRFind(s, pat) ==
    LET hits == {i \in 0..(Len(s) - Len(pat)) : MatchAt(s, pat, i)}
    IN  IF hits = {} THEN -1 ELSE CHOOSE i \in hits : \A j \in hits : i >= j

\* pat in s
PyIn(pat, s) == PyFind(s, pat, 0) # -1

PyStartsWith(s, pat) == MatchAt(s, pat, 0)
PyEndsWith(s, pat) == MatchAt(s, pat, Len(s) - Len(pat))

\* s.replace(pat, rep): non-overlapping occurrences, left to right
RECURSIVE PyReplaceFrom(_, _, _, _)
PyReplaceFrom(s, pat, rep, i) ==
    IF i >= Len(s) THEN <<>>
    ELSE IF MatchAt(s, pat, i)
         THEN rep \o PyReplaceFrom(s, pat, rep, i + Len(pat))
         ELSE <<s[i + 1]>> \o PyReplaceFrom(s, pat, rep, i + 1)

PyReplace(s, pat, rep) == PyReplaceFrom(s, pat, rep, 0)

\* s.strip()
RECURSIVE LStrip(_)
LStrip(s) ==
    IF s # <<>> /\ Head(s) \in Whitespace THEN LStrip(Tail(s)) ELSE s

RECURSIVE RStrip(_)
RStrip(s) ==
    IF s # <<>> /\ s[Len(s)] \in Whitespace
    THEN RStrip(SubSeq(s, 1, Len(s) - 1)) ELSE s

PyStrip(s) == RStrip(LStrip(s))

-----------------------------------------------------------------------------
(* JSON values: Python's None, bool, int, str, list and dict *)

None == [t |-> "null"]
Bool(b) == [t |-> "bool", b |-> b]
Num(d) == [t |-> "num", d |-> d]        \* d: the digits
Str(s) == [t |-> "str", s |-> s]        \* s: the characters
Arr(e) == [t |-> "arr", e |-> e]        \* e: the items in order
Obj(m) == [t |-> "obj", m |-> m]        \* m: key characters -> value

EmptyMap == [k \in {} |-> None]

\* d[key] = val on a dict (a repeated key keeps the last value)
MapPut(m, key, val) ==
    [k \in (DOMAIN m) \cup {key} |-> IF k = key THEN val ELSE m[k]]

IsDict(v) == v.t = "obj"

\* bool(v): None, False, 0, "", [] and {} are falsy
Truthy(v) ==
    CASE v.t = "null" -> FALSE
      [] v.t = "bool" -> v.b
      [] v.t = "num"  -> \E i \in 1..Len(v.d) : v.d[i] # "0"
      [] v.t = "str"  -> v.s # <<>>
      [] v.t = "arr"  -> v.e # <<>>
      [] v.t = "obj"  -> DOMAIN v.m # {}

-----------------------------------------------------------------------------
(* json.loads *)

Digits == {"0", "1", "2", "3", "4", "5", "6", "7", "8", "9"}

\* the characters a backslash may precede inside a JSON string
Escapes == {DQ, BS, "/", "b", "f", "n", "r", "t"}

Unescape(c) ==
    CASE c = "n" -> NL
      [] c = "t" -> TAB
      [] c = "b" -> "BSP"
      [] c = "f" -> "FF"
      [] c = "r" -> "CR"
      [] OTHER   -> c

ParseFail == [ok |-> FALSE, v |-> None, p |-> 0]
ParseOk(v, p) == [ok |-> TRUE, v |-> v, p |-> p]

\* index of the first non-whitespace character at or after i (1-based)
RECURSIVE SkipWs(_, _)
SkipWs(s, i) ==
    IF i <= Len(s) /\ s[i] \in Whitespace THEN SkipWs(s, i + 1) ELSE i

\* the characters of a string literal whose opening quote precedes i
RECURSIVE ScanString(_, _, _)
ScanString(s, i, acc) ==
    IF i > Len(s) THEN ParseFail
    ELSE IF s[i] = DQ THEN ParseOk(acc, i + 1)
    ELSE IF s[i] = BS
         THEN IF i + 1 <= Len(s) /\ s[i + 1] \in Escapes
              THEN ScanString(s, i + 2, Append(acc, Unescape(s[i + 1])))
              ELSE ParseFail
    ELSE IF s[i] \in {NL, TAB} THEN ParseFail   \* raw control character
    ELSE ScanString(s, i + 1, Append(acc, s[i]))

\* end (exclusive) of the run of digits that starts at i
RECURSIVE DigitsEnd(_, _)
DigitsEnd(s, i) ==
    IF i <= Len(s) /\ s[i] \in Digits THEN DigitsEnd(s, i + 1) ELSE i

ScanNumber(s, i) ==
    LET e == IF s[i] = "0" THEN i + 1 ELSE DigitsEnd(s, i)
    IN  ParseOk(Num(SubSeq(s, i, e - 1)), e)

RECURSIVE JsonValue(_, _)
RECURSIVE JsonMembers(_, _, _)
RECURSIVE JsonItems(_, _, _)

\* the value that starts at i
JsonValue(s, i) ==
    IF i > Len(s) THEN ParseFail
    ELSE IF s[i] = DQ
         THEN LET r == ScanString(s, i + 1, <<>>)
              IN  IF r.ok THEN ParseOk(Str(r.v), r.p) ELSE ParseFail
    ELSE IF s[i] = "{"
         THEN LET j == SkipWs(s, i + 1)
              IN  IF j <= Len(s) /\ s[j] = "}"
                  THEN ParseOk(Obj(EmptyMap), j + 1)
                  ELSE JsonMembers(s, j, EmptyMap)
    ELSE IF s[i] = "["
         THEN LET j == SkipWs(s, i + 1)
              IN  IF j <= Len(s) /\ s[j] = "]"
                  THEN ParseOk(Arr(<<>>), j + 1)
                  ELSE JsonItems(s, j, <<>>)
    ELSE IF s[i] = "null" THEN ParseOk(None, i + 1)
    ELSE IF s[i] = "true" THEN ParseOk(Bool(TRUE), i + 1)
    ELSE IF s[i] = "false" THEN ParseOk(Bool(FALSE), i + 1)
    ELSE IF s[i] \in Digits THEN ScanNumber(s, i)
    ELSE ParseFail

\* "key": value pairs from i up to the closing brace
JsonMembers(s, i, m) ==
    IF i > Len(s) \/ s[i] # DQ THEN ParseFail
    ELSE LET k == ScanString(s, i + 1, <<>>)
         IN  IF ~k.ok THEN ParseFail
             ELSE LET c == SkipWs(s, k.p)
                  IN  IF c > Len(s) \/ s[c] # ":" THEN ParseFail
                      ELSE LET r == JsonValue(s, SkipWs(s, c + 1))
                           IN  IF ~r.ok THEN ParseFail
                               ELSE LET e == SkipWs(s, r.p)
                                        m2 == MapPut(m, k.v, r.v)
                                    IN  IF e > Len(s) THEN ParseFail
                                        ELSE IF s[e] = "}"
                                             THEN ParseOk(Obj(m2), e + 1)
                                        ELSE IF s[e] = ","
                                             THEN JsonMembers(s, SkipWs(s, e + 1), m2)
                                        ELSE ParseFail

\* array items from i up to the closing bracket
JsonItems(s, i, acc) ==
    LET r == JsonValue(s, i)
    IN  IF ~r.ok THEN ParseFail
        ELSE LET e == SkipWs(s, r.p)
                 acc2 == Append(acc, r.v)
             IN  IF e > Len(s) THEN ParseFail
                 ELSE IF s[e] = "]" THEN ParseOk(Arr(acc2), e + 1)
                 ELSE IF s[e] = "," THEN JsonItems(s, SkipWs(s, e + 1), acc2)
                 ELSE ParseFail

\* json.loads(s): ok = FALSE stands for the exception it raises
JsonLoads(s) ==
    LET r == JsonValue(s, SkipWs(s, 1))
    IN  IF r.ok /\ SkipWs(s, r.p) > Len(s)
        THEN [ok |-> TRUE, v |-> r.v]
        ELSE [ok |-> FALSE, v |-> None]

-----------------------------------------------------------------------------
(* LLMService._extract_json *)

Returned(v) == [raised |-> FALSE, v |-> v]
Raised == [raised |-> TRUE, v |-> None]

\* the doubled-brace unwrap applied to a candidate before parsing
CollapseBraces(candidate) ==
    IF PyStartsWith(candidate, <<"{", "{">>) /\ PyEndsWith(candidate, <<"}", "}">>)
    THEN PyReplace(PyReplace(candidate, <<"{", "{">>, <<"{">>), <<"}", "}">>, <<"}">>)
    ELSE candidate

\* the candidate of the fenced block
FencedCandidate(s) ==
    LET start == PyFind(s, FenceOpen, 0) + Len(FenceOpen)
        end == PyFind(s, Fence, start)
    IN  PyStrip(PySlice(s, start, end))

\* the candidate of the widest brace span
BraceCandidate(s) ==
    LET start == PyFind(s, <<"{">>, 0)
        end == PyRFind(s, <<"}">>) + 1
    IN  PySlice(s, start, end)

\* the strategies tried in the other order: brace span, then fenced block
ExtractJsonBracesFirst(s) ==
    IF s = <<>> THEN Returned(None)
    ELSE LET fenced == JsonLoads(CollapseBraces(FencedCandidate(s)))
             braces == JsonLoads(CollapseBraces(BraceCandidate(s)))
         IN  IF braces.ok THEN Returned(braces.v)
             ELSE IF PyIn(FenceOpen, s) /\ fenced.ok THEN Returned(fenced.v)
             ELSE Returned(None)

ExtractJson(s) ==
    IF s = <<>> THEN Returned(None)
    ELSE LET fenced == JsonLoads(CollapseBraces(FencedCandidate(s)))
             braces == JsonLoads(CollapseBraces(BraceCandidate(s)))
         IN  IF PyIn(FenceOpen, s) /\ fenced.ok THEN Returned(fenced.v)
             ELSE IF braces.ok THEN Returned(braces.v)
             ELSE Returned(None)

-----------------------------------------------------------------------------
(* MappingView: the flattened fields of a mapping, field name -> type *)

\* the .keyword siblings cheatsheet adds to self.fields
KeywordBases == {"title", "author_name", "full_name"}

SetDefault(m, key, val) == IF key \in DOMAIN m THEN m ELSE MapPut(m, key, val)

\* the .keyword siblings added whether or not the base field is there
CheatsheetFieldsAlways(fields) ==
    SetDefault(SetDefault(SetDefault(fields, "title.keyword", "keyword"),
                          "author_name.keyword", "keyword"),
               "full_name.keyword", "keyword")

\* self.fields after cheatsheet() ran on it
CheatsheetFields(fields) ==
    LET f1 == IF "title" \in DOMAIN fields
              THEN SetDefault(fields, "title.keyword", "keyword") ELSE fields
        f2 == IF "author_name" \in DOMAIN f1
              THEN SetDefault(f1, "author_name.keyword", "keyword") ELSE f1
        f3 == IF "full_name" \in DOMAIN f2
              THEN SetDefault(f2, "full_name.keyword", "keyword") ELSE f2
    IN  f3

NoFields == [k \in {} |-> "text"]

\* no mapping file is being read
NoFile == [state |-> "none", content |-> <<>>]

\* the characters of a key or of a type as one name
RECURSIVE Joined(_)
Joined(k) == IF k = <<>> THEN "" ELSE Head(k) \o Joined(Tail(k))

\* (d.get(key) or {})
GetOrEmpty(d, key) ==
    IF key \in DOMAIN d.m /\ Truthy(d.m[key]) THEN d.m[key] ELSE Obj(EmptyMap)

\* walk raises: node.items(), "properties" in v, v.get and v["properties"]
\* need dicts
RECURSIVE WalkRaises(_)
WalkRaises(node) ==
    \/ ~IsDict(node)
    \/ \E k \in DOMAIN node.m :
          LET v == node.m[k]
          IN  \/ ~IsDict(v)
              \/ /\ <<"properties">> \in DOMAIN v.m
                 /\ WalkRaises(v.m[<<"properties">>])

\* the entries walk(prefix, node) puts in flat, as <<name, type>> pairs (the
\* types in the files read are strings, and no two paths have the same name)
RECURSIVE WalkFlat(_, _)
WalkFlat(prefix, node) ==
    UNION { LET v == node.m[k]
            IN  IF <<"properties">> \in DOMAIN v.m
                THEN WalkFlat(prefix \o Joined(k) \o ".", v.m[<<"properties">>])
                ELSE IF <<"type">> \in DOMAIN v.m /\ Truthy(v.m[<<"type">>])
                     THEN {<<prefix \o Joined(k), Joined(v.m[<<"type">>].s)>>}
                     ELSE {} : k \in DOMAIN node.m }

\* the dict of a set of <<name, type>> pairs
FlatFields(pairs) ==
    [name \in {e[1] : e \in pairs} |-> (CHOOSE e \in pairs : e[1] = name)[2]]

Loaded(fields) == [raised |-> FALSE, fields |-> fields]
LoadRaised == [raised |-> TRUE, fields |-> NoFields]

\* json.load(f) inside the try block: ok = FALSE when open or json.load raised
ReadMapping(f) ==
    IF f.state = "ok" THEN JsonLoads(f.content) ELSE [ok |-> FALSE, v |-> None]

\* a failed read that leaves from_file as an exception
FromFilePropagates(f) ==
    LET read == ReadMapping(f)
        mapping == read.v
    IN  IF ~read.ok \/ ~IsDict(mapping) THEN LoadRaised
        ELSE LET mappings == GetOrEmpty(mapping, <<"mappings">>)
             IN  IF ~IsDict(mappings) THEN LoadRaised
                 ELSE LET props == GetOrEmpty(mappings, <<"properties">>)
                      IN  IF WalkRaises(props) THEN LoadRaised
                          ELSE Loaded(FlatFields(WalkFlat("", props)))

\* MappingView.from_file(path).fields, or the exception that leaves it
FromFile(f) ==
    LET read == ReadMapping(f)
        mapping == IF read.ok THEN read.v ELSE Obj(EmptyMap)
    IN  IF ~IsDict(mapping) THEN LoadRaised
        ELSE LET mappings == GetOrEmpty(mapping, <<"mappings">>)
             IN  IF ~IsDict(mappings) THEN LoadRaised
                 ELSE LET props == GetOrEmpty(mappings, <<"properties">>)
                      IN  IF WalkRaises(props) THEN LoadRaised
                          ELSE Loaded(FlatFields(WalkFlat("", props)))

\* preferred_order of cheatsheet
PreferredOrder ==
    << "title", "summary", "content", "searchable_content", "author_name",
       "author_name.keyword", "tags", "status", "is_published",
       "createdTs", "created_at", "updated_at",
       "likes", "dislikes", "views",
       "content_length", "summary_length", "engagement_ratio", "tag_count",
       "full_name", "full_name.keyword", "email", "role",
       "engagement_score", "followers", "total_followers", "total_likes",
       "total_dislikes", "total_bookmarks", "total_following",
       "id" >>

Unlisted == 9999     \* the rank of a field preferred_order does not hold

\* a key that puts the fields preferred_order does not hold first
PreferredRankUnlistedFirst(name) ==
    IF \E i \in 1..Len(PreferredOrder) : PreferredOrder[i] = name
    THEN (CHOOSE i \in 1..Len(PreferredOrder) : PreferredOrder[i] = name) - 1
    ELSE -1

\* preferred_order.index(name) if name in preferred_order else 9999
PreferredRank(name) ==
    IF \E i \in 1..Len(PreferredOrder) : PreferredOrder[i] = name
    THEN (CHOOSE i \in 1..Len(PreferredOrder) : PreferredOrder[i] = name) - 1
    ELSE Unlisted

\* the names preferred_order does not hold, in the order of str comparison
UnlistedNames == <<"stats.views", "title.keyword", "zip">>

\* a < b on the names of two fields
NameLess(a, b) ==
    LET pos(n) == CHOOSE i \in 1..Len(UnlistedNames) : UnlistedNames[i] = n
    IN  IF \A n \in {a, b} : \E i \in 1..Len(UnlistedNames) : UnlistedNames[i] = n
        THEN pos(a) < pos(b)
        ELSE FALSE

\* (rank, name) of a before (rank, name) of b
KeyLess(a, b) ==
    \/ PreferredRank(a) < PreferredRank(b)
    \/ PreferredRank(a) = PreferredRank(b) /\ NameLess(a, b)

\* sorted(self.fields.items(), key=...) as <<name, type>> entries
Ordered(fields) ==
    LET names == DOMAIN fields
        place(n) == 1 + Cardinality({o \in names : KeyLess(o, n)})
    IN  [i \in 1..Cardinality(names) |->
            LET n == CHOOSE n \in names : place(n) = i IN <<n, fields[n]>>]

NoSheet == [index |-> "", entries |-> <<>>]     \* cheatsheet was not called

\* what cheatsheet(index_name) returns: the name and the entries "k [t]" in
\* order
Cheatsheet(index_name, fields) ==
    [index |-> index_name, entries |-> Ordered(CheatsheetFields(fields))]

\* what from_file yields: no file, or the flattened properties of the file
ArticleMappings ==
    { NoFields,
      ("title" :> "text") @@ ("author_name" :> "text") @@ ("created_at" :> "date") }

UserMappings ==
    { NoFields,
      ("full_name" :> "text") @@ ("full_name.keyword" :> "keyword") @@ ("email" :> "keyword") }

-----------------------------------------------------------------------------
(* The completion backend and its outputs *)

K(word) == <<DQ, word, DQ, ":">>        \* "word":
S(word) == <<DQ, word, DQ>>             \* "word"

MatchAll == <<"{">> \o K("match_all") \o <<"{", "}", "}">>

TextUsers ==
    <<"{">> \o K("index") \o S("blog-users") \o <<",">> \o K("query") \o MatchAll \o <<"}">>
TextNoIndex ==
    <<"{">> \o K("query") \o MatchAll \o <<"}">>
TextPaged ==
    <<"{">> \o K("index") \o S("blog-articles") \o <<",">> \o K("query") \o MatchAll
        \o <<",">> \o K("size") \o <<"5">> \o <<",">> \o K("from") \o <<"2">> \o <<"}">>
TextOther ==
    <<"{">> \o K("index") \o S("other") \o <<",">> \o K("query") \o MatchAll \o <<"}">>
TextTracked ==
    <<"{">> \o K("query") \o MatchAll \o <<",">> \o K("size") \o <<"5">>
        \o <<",">> \o K("track_total_hits") \o <<"false">> \o <<"}">>
TextFlat ==
    <<"{">> \o K("index") \o S("blog-users") \o <<"}">>

\* message.content of a reply in JSON mode
StructuredContents ==
    { TextUsers, TextNoIndex, TextPaged, TextOther, TextTracked,
      <<"{", "}">>, <<"[", "1", "]">>, <<"7">>, <<"null">>, <<DQ, "hi", DQ>>,
      <<"sorry">>, <<>> }

\* message.content of a reply in plain mode
FreeContents ==
    { FenceOpen \o <<NL>> \o TextUsers \o <<NL>> \o Fence,
      <<"Here", SP>> \o TextPaged \o <<SP, "ok">>,
      <<"{">> \o TextFlat \o <<"}">>,
      <<"{">> \o TextUsers \o <<"}">>,
      FenceOpen \o <<"[", "1", "]">> \o Fence,
      <<SP>> \o TextNoIndex \o <<NL>>,
      <<"sorry">> }

\* the client raised
LlmFaults == {"APIConnectionError", "RateLimitError"}

Fault(err) == [kind |-> "fault", err |-> err, content |-> <<>>]
NullContent == [kind |-> "null", err |-> "", content |-> <<>>]
Content(c) == [kind |-> "text", err |-> "", content |-> c]

StructuredReplies ==
    {Fault(e) : e \in LlmFaults} \cup {NullContent} \cup {Content(c) : c \in StructuredContents}

FreeReplies ==
    {Fault(e) : e \in LlmFaults} \cup {NullContent} \cup {Content(c) : c \in FreeContents}

-----------------------------------------------------------------------------
(* LLMService._call_llm_json_only and LLMService.refine_query *)

\* a JSON-mode call whose result is thrown away, so that the plain call
\* always follows
StructuredAttemptDiscarded(reply) == [ok |-> FALSE, v |-> None]

\* the try block of the JSON-mode call: ok = FALSE when it raised
StructuredAttempt(reply) ==
    IF reply.kind = "fault" THEN [ok |-> FALSE, v |-> None]
    ELSE JsonLoads(reply.content)          \* content or ""

\* the fallback block: plain call, strip, _extract_json
FreeAttempt(reply) ==
    IF reply.kind = "fault" THEN None
    ELSE LET r == ExtractJson(PyStrip(reply.content))
         IN  IF r.raised THEN None ELSE r.v

\* a refine that returns every dict, the empty one too
RefineReturnKeepsEmpty(v) == IF IsDict(v) THEN v ELSE None

\* what refine_query returns for the value _call_llm_json_only gave it
RefineReturn(v) ==
    IF Truthy(v)
    THEN IF IsDict(v) THEN v      \* refined.get(...) is logged, refined returned
         ELSE None                \* no .get: AttributeError, caught, None
    ELSE None                     \* falls off the end of the function

-----------------------------------------------------------------------------
(* SearchService.search *)

MaxTotal == 2      \* largest total the engine reports
MaxPage == 2       \* most hits the engine returns in one response

DocA == (<<"title">> :> Str(<<"Intro">>)) @@ (<<"likes">> :> Num(<<"3">>))
DocB == (<<"title">> :> Str(<<"Tips">>)) @@ (<<"__meta">> :> Str(<<"own">>))

Hits ==
    { [id |-> "1", index |-> "blog-articles", score |-> "high",
       highlight |-> "none", sort |-> "none", source |-> DocA],
      [id |-> "2", index |-> "blog-articles", score |-> "low",
       highlight |-> "title", sort |-> "none", source |-> DocB] }

HitSeqs == UNION {[1..n -> Hits] : n \in 0..MaxPage}

\* the engine's answers: a total (or none) and a page of hits
EngineResponses ==
    UNION {{[hasTotal |-> TRUE, total |-> n, hits |-> h] :
               h \in {x \in HitSeqs : Len(x) <= n}} : n \in 0..MaxTotal}
    \cup {[hasTotal |-> FALSE, total |-> 0, hits |-> h] : h \in HitSeqs}

\* the client's exceptions: rejected query, missing index, anything else
EngineFaults == {"RequestError", "NotFoundError", "ConnectionError", "TransportError"}

\* the caller's dict after a call of search: search fills in its own copy,
\* body = dict(query)
CallerBodyAfter(q) == q

\* the arguments of one call search(index, query, size), and the caller's
\* dict as the call leaves it
SearchArgs(index, q, sz) ==
    [index |-> index, query |-> q, size |-> sz, after |-> CallerBodyAfter(q)]

\* track_total_hits forced to true whatever the caller's body holds
EngineRequestForcesTotal(index, q, sz) ==
    LET body == MapPut(q, <<"track_total_hits">>, Bool(TRUE))
    IN  [index |-> index,
         body |-> body,
         size |-> IF <<"size">> \in DOMAIN body THEN body[<<"size">>] ELSE sz]

\* body = dict(query); body.setdefault("track_total_hits", True); size from
\* the body when it has one
EngineRequest(index, q, sz) ==
    LET body == SetDefault(q, <<"track_total_hits">>, Bool(TRUE))
    IN  [index |-> index,
         body |-> body,
         size |-> IF <<"size">> \in DOMAIN body THEN body[<<"size">>] ELSE sz]

\* src = dict(h["_source"]); src["__meta"] = {...}
FormatHit(h) ==
    MapPut(h.source, <<"__meta">>,
           [id |-> h.id, index |-> h.index, score |-> h.score,
            highlight |-> h.highlight, sort |-> h.sort])

\* a count of the returned page in the place of the engine's total
SearchResultsCountsPage(resp) ==
    [total_hits |-> Len(resp.hits),
     results |-> [i \in 1..Len(resp.hits) |-> FormatHit(resp.hits[i])],
     raw_hits |-> resp.hits]

\* the metadata written into the hit's own _source (src = h["_source"]
\* without the copy), so that the raw hits carry it too
SearchResultsSharesSource(resp) ==
    [total_hits |-> IF resp.hasTotal THEN resp.total ELSE 0,
     results |-> [i \in 1..Len(resp.hits) |-> FormatHit(resp.hits[i])],
     raw_hits |-> [i \in 1..Len(resp.hits) |->
                      [resp.hits[i] EXCEPT !.source = FormatHit(resp.hits[i])]]]

\* the dict search returns
SearchResults(resp) ==
    [total_hits |-> IF resp.hasTotal THEN resp.total ELSE 0,
     results |-> [i \in 1..Len(resp.hits) |-> FormatHit(resp.hits[i])],
     raw_hits |-> resp.hits]

\* the except clauses of search: what it raises for a fault of the client
SearchRaise(fault) ==
    CASE fault = "RequestError"  -> [type |-> "ValueError", msg |-> "Invalid search query"]
      [] fault = "NotFoundError" -> [type |-> "ValueError", msg |-> "Index not found"]
      [] OTHER                   -> [type |-> "RuntimeError", msg |-> "Search failed"]

NoSearch == [state |-> "none"]
SearchReturned(r) == [state |-> "returned", results |-> r]
SearchRaised(fault) == [state |-> "raised", fault |-> fault, exc |-> SearchRaise(fault)]

-----------------------------------------------------------------------------
(* LLMService.process_results *)

SQ == "'"

NoAnalysis == [kind |-> "none"]
NoResultsText == [kind |-> "no_results"]           \* ERROR_MESSAGES["no_results"]
Narrated(t) == [kind |-> "llm", text |-> t]
\* "Found {count} results for your query. LLM analysis unavailable due to
\* processing error: {err}"
FallbackText(count, err) == [kind |-> "fallback", count |-> count, err |-> err]

\* a cleanup that also turns an escaped backslash into a backslash
CleanupUnescapesBackslash(a) ==
    LET a1 == IF (PyStartsWith(a, <<DQ>>) /\ PyEndsWith(a, <<DQ>>))
                 \/ (PyStartsWith(a, <<SQ>>) /\ PyEndsWith(a, <<SQ>>))
              THEN PySlice(a, 1, -1) ELSE a
        a2 == PyReplace(PyReplace(a1, <<DQ, DQ>>, <<DQ>>), <<SQ, SQ>>, <<SQ>>)
        a3 == PyReplace(a2, <<BS, DQ>>, <<DQ>>)
        a4 == PyReplace(a3, <<BS, "n">>, <<NL>>)
        a5 == PyReplace(a4, <<BS, "t">>, <<TAB>>)
    IN  PyReplace(a5, <<BS, BS>>, <<BS>>)

\* the quote and escape cleanup of the model's answer
CleanupAnalysis(a) ==
    LET a1 == IF (PyStartsWith(a, <<DQ>>) /\ PyEndsWith(a, <<DQ>>))
                 \/ (PyStartsWith(a, <<SQ>>) /\ PyEndsWith(a, <<SQ>>))
              THEN PySlice(a, 1, -1) ELSE a
        a2 == PyReplace(PyReplace(a1, <<DQ, DQ>>, <<DQ>>), <<SQ, SQ>>, <<SQ>>)
        a3 == PyReplace(a2, <<BS, DQ>>, <<DQ>>)
        a4 == PyReplace(a3, <<BS, "n">>, <<NL>>)
    IN  PyReplace(a4, <<BS, "t">>, <<TAB>>)

\* message.content of a narration reply
NarrationContents ==
    { <<"Found", SP, "2", SP, "posts">>,
      <<SP, DQ, "Found", SP, "2", DQ, NL>>,
      <<SQ, "Two", BS, "n", "posts", SQ>>,
      <<DQ, DQ, "Tips", DQ, DQ>> }

NarrationReplies ==
    {Fault(e) : e \in LlmFaults} \cup {NullContent} \cup {Content(c) : c \in NarrationContents}

\* the empty case decided by the page of results instead of the total
NeedsBackendByPage(results) == results.results # <<>>

\* result_count == 0 returns the fixed text; anything else goes to the backend
NeedsBackend(results) == results.total_hits # 0

\* a fallback that counts the returned page instead of the total
NarrationResultCountsPage(results, reply) ==
    LET fallback(err) == IF Len(results.results) > 0
                         THEN FallbackText(Len(results.results), err)
                         ELSE NoResultsText
    IN  CASE reply.kind = "fault" -> fallback(reply.err)
          [] reply.kind = "null"  -> fallback("AttributeError")
          [] OTHER                -> Narrated(CleanupAnalysis(PyStrip(reply.content)))

\* what process_results returns once the backend answered, total_hits > 0
NarrationResult(results, reply) ==
    LET fallback(err) == IF results.total_hits > 0
                         THEN FallbackText(results.total_hits, err)
                         ELSE NoResultsText
    IN  CASE reply.kind = "fault" -> fallback(reply.err)
          [] reply.kind = "null"  -> fallback("AttributeError")
          [] OTHER                -> Narrated(CleanupAnalysis(PyStrip(reply.content)))

-----------------------------------------------------------------------------
(* The answers of POST /search/natural *)

NoResponse == [status |-> "none"]

\* a failed refinement answered with HTTPException instead of an envelope
NotRefinedRaises(q) == [status |-> "internal_error", detail |-> "Search failed"]

\* the SearchResponse built when refinement gave nothing
NotRefinedResponse(q) ==
    [status |-> "ok", success |-> FALSE, query |-> q, total_hits |-> 0,
     results |-> <<>>, analysis |-> NoAnalysis,
     error |-> "Could not understand your query. Please try rephrasing it."]

\* the SearchResponse of the except ValueError clause
ValueErrorResponse(q, exc) ==
    [status |-> "ok", success |-> FALSE, query |-> q, total_hits |-> 0,
     results |-> <<>>, analysis |-> NoAnalysis, error |-> exc.msg]

\* HTTPException(status_code=500, detail="Search failed")
InternalError == [status |-> "internal_error", detail |-> "Search failed"]

\* how natural_search answers an exception of search
SearchFailureResponse(q, exc) ==
    IF exc.type = "ValueError" THEN ValueErrorResponse(q, exc) ELSE InternalError

\* the SearchResponse of a completed search
SuccessResponse(q, results, a, r) ==
    [status |-> "ok", success |-> TRUE, query |-> q,
     total_hits |-> results.total_hits, results |-> results.results,
     analysis |-> a, elasticsearch_query |-> r, error |-> ""]

\* index and body natural_search takes from the refined request
RefinedIndex(r) ==
    IF <<"index">> \in DOMAIN r.m THEN r.m[<<"index">>] ELSE Str(<<"blog-articles">>)

RefinedBody(r) == [k \in (DOMAIN r.m) \ {<<"index">>} |-> r.m[k]]

-----------------------------------------------------------------------------
(* SearchService.validate_query and POST /search/elasticsearch *)

NoDirect == [state |-> "none"]
DirectRequested(index, body) == [state |-> "requested", index |-> index, query |-> body]

MatchAllClause == Obj((<<"match_all">> :> Obj(EmptyMap)))

\* the query parameter of a direct request: a wrapped clause, a bare
\* clause, and bodies that carry their own size or track_total_hits
DirectBodies ==
    { (<<"query">> :> MatchAllClause),
      (<<"match_all">> :> Obj(EmptyMap)),
      (<<"query">> :> MatchAllClause) @@ (<<"size">> :> Num(<<"9", "9", "9">>)),
      (<<"query">> :> MatchAllClause) @@ (<<"track_total_hits">> :> Bool(FALSE)),
      (<<"query">> :> None) }

DirectIndices == {Str(<<"blog-articles">>), Str(<<"missing">>)}

\* q = body.get("query", body)
Submitted(body) ==
    IF <<"query">> \in DOMAIN body THEN body[<<"query">>] ELSE Obj(body)

\* what indices.validate_query does: it answers, with or without a "valid"
\* entry, or it raises
ValidateAnswers ==
    { (<<"valid">> :> Bool(TRUE)),
      (<<"valid">> :> Bool(FALSE)),
      (<<"error">> :> Str(<<"unparsed">>)) }

ValidateAnswer(resp) == [kind |-> "answer", fault |-> "", resp |-> resp]
ValidateFault(fault) == [kind |-> "fault", fault |-> fault, resp |-> EmptyMap]

ValidateReplies ==
    {ValidateAnswer(r) : r \in ValidateAnswers} \cup {ValidateFault(f) : f \in EngineFaults}

\* a fault of the validation call that leaves validate_query as an exception
ValidateQueryRaises(reply) ==
    IF reply.kind = "fault" THEN [raised |-> TRUE, v |-> None]
    ELSE IF <<"valid">> \in DOMAIN reply.resp
         THEN Returned(reply.resp[<<"valid">>]) ELSE Returned(Bool(FALSE))

\* what validate_query returns: resp.get("valid", False), False on a fault
ValidateQuery(reply) ==
    IF reply.kind = "fault" THEN Returned(Bool(FALSE))
    ELSE IF <<"valid">> \in DOMAIN reply.resp
         THEN Returned(reply.resp[<<"valid">>]) ELSE Returned(Bool(FALSE))

\* one call of validate_query: its arguments, what it submitted, the reply
\* of the engine and what it returned
Validation(index, body, reply) ==
    [index |-> index, body |-> body, submitted |-> Submitted(body),
     reply |-> reply, out |-> ValidateQuery(reply)]

\* str(query) of the response, kept as the value it renders
PyStr(v) == [t |-> "str_of", of |-> v]

\* body = dict(query); body.pop("size", None)
DirectSearchBody(body) == [k \in (DOMAIN body) \ {<<"size">>} |-> body[k]]

\* a query that did not validate answered with HTTPException(500)
InvalidQueryRaises(body) == [status |-> "internal_error", detail |-> "Search failed"]

\* the SearchResponse of a query that did not validate
InvalidQueryResponse(body) ==
    [status |-> "ok", success |-> FALSE, query |-> PyStr(Obj(body)), total_hits |-> 0,
     results |-> <<>>, analysis |-> NoAnalysis, error |-> "Invalid Elasticsearch query"]

\* the SearchResponse of a completed direct search
DirectSuccessResponse(body, results) ==
    [status |-> "ok", success |-> TRUE, query |-> PyStr(Obj(body)),
     total_hits |-> results.total_hits, results |-> results.results,
     analysis |-> NoAnalysis, elasticsearch_query |-> Obj(body), error |-> ""]

-----------------------------------------------------------------------------
(* POST /search/natural, one step per outbound call *)

Queries == {<<>>, <<"find", SP, "python">>}           \* request.query
Sizes == {Num(<<"1", "0">>), Num(<<"3">>)}            \* request.size

Pending == [t |-> "pending"]      \* refine_query has not returned yet

NoRun == [state |-> "none"]       \* main.py is not part of this behaviour

\* an outbound call: to the completion backend ("structured", "free",
\* "narrate") or to the engine ("search"), with what came back
NoReply == [kind |-> "none", err |-> "", content |-> <<>>]
Call(mode) == [mode |-> mode, out |-> "pending", reply |-> NoReply]

\* what the engine answered a search with, as the log keeps it
EngineAnswer(resp) == [kind |-> "engine", err |-> "", content |-> <<>>, resp |-> resp]

\* the log with the outcome of its last call filled in
Answered(log, out, reply) ==
    [log EXCEPT ![Len(log)] = [mode |-> @.mode, out |-> out, reply |-> reply]]

Init ==
    /\ pc = "idle"
    /\ query = <<>>
    /\ size = Num(<<"1", "0">>)
    /\ refined = Pending
    /\ calls = <<>>
    /\ sent = <<>>
    /\ searchOut = NoSearch
    /\ analysis = NoAnalysis
    /\ response = NoResponse
    /\ articles \in ArticleMappings
    /\ users \in UserMappings
    /\ direct = NoDirect
    /\ searchArgs = <<>>
    /\ validations = <<>>
    /\ text = <<>>
    /\ parts = [wrap |-> "none", obj |-> <<>>]
    /\ extracted = Returned(None)
    /\ file = NoFile
    /\ sheet = NoSheet
    /\ cleaned = <<>>
    /\ run = NoRun

\* natural_search up to the first backend call: refine_query renders both
\* cheatsheets, builds the prompt and calls the backend in JSON mode
Request(q, sz) ==
    /\ pc = "idle"
    /\ query' = q
    /\ size' = sz
    /\ articles' = CheatsheetFields(articles)
    /\ users' = CheatsheetFields(users)
    /\ calls' = <<Call("structured")>>
    /\ pc' = "llm_structured"
    /\ refined' = Pending
    /\ sent' = <<>>
    /\ searchOut' = NoSearch
    /\ analysis' = NoAnalysis
    /\ response' = NoResponse
    /\ direct' = NoDirect
    /\ searchArgs' = <<>>
    /\ validations' = <<>>
    /\ UNCHANGED <<pureVars>>

\* natural_search without the "if not refined_query" return: the search is
\* issued whatever refine_query returned
AfterRefineAlwaysSearches(r, done) ==
    /\ refined' = r
    /\ LET index == IF Truthy(r) THEN RefinedIndex(r) ELSE Str(<<"blog-articles">>)
           body == IF Truthy(r) THEN RefinedBody(r) ELSE EmptyMap
       IN  /\ searchArgs' = Append(searchArgs, SearchArgs(index, body, size))
           /\ sent' = Append(sent, EngineRequest(index, body, size))
    /\ calls' = Append(done, Call("search"))
    /\ response' = response
    /\ pc' = "es_search"
    /\ UNCHANGED <<query, size, searchOut, analysis, articles, users,
                   direct, validations, pureVars>>

\* natural_search from the return of refine_query (value r, backend log
\* done) up to the engine call or the early answer
AfterRefine(r, done) ==
    /\ refined' = r
    /\ IF ~Truthy(r)
       THEN /\ response' = NotRefinedResponse(query)
            /\ calls' = done
            /\ sent' = sent
            /\ searchArgs' = searchArgs
            /\ pc' = "done"
       ELSE /\ searchArgs' = Append(searchArgs, SearchArgs(RefinedIndex(r), RefinedBody(r), size))
            /\ sent' = Append(sent, EngineRequest(RefinedIndex(r), RefinedBody(r), size))
            /\ calls' = Append(done, Call("search"))
            /\ response' = response
            /\ pc' = "es_search"
    /\ UNCHANGED <<query, size, searchOut, analysis, articles, users,
                   direct, validations, pureVars>>

\* the backend answers the JSON-mode call
StructuredReply(reply) ==
    /\ pc = "llm_structured"
    /\ LET a == StructuredAttempt(reply)
       IN  IF a.ok
           THEN AfterRefine(RefineReturn(a.v), Answered(calls, "parsed", reply))
           ELSE /\ calls' = Append(Answered(calls,
                                            IF reply.kind = "fault"
                                            THEN "fault" ELSE "unparsed",
                                            reply),
                                   Call("free"))
                /\ pc' = "llm_free"
                /\ UNCHANGED <<query, size, refined, sent, searchOut, analysis,
                               response, articles, users, direct, searchArgs,
                               validations, pureVars>>

\* the backend answers the plain-mode call
FreeReply(reply) ==
    /\ pc = "llm_free"
    /\ AfterRefine(RefineReturn(FreeAttempt(reply)),
                   Answered(calls, IF reply.kind = "fault" THEN "fault" ELSE "text",
                            reply))

\* the engine raises: search maps the exception, natural_search answers it
EngineFails(fault) ==
    /\ pc = "es_search"
    /\ searchOut' = SearchRaised(fault)
    /\ calls' = Answered(calls, "fault", NoReply)
    /\ response' = SearchFailureResponse(query, SearchRaise(fault))
    /\ pc' = "done"
    /\ UNCHANGED <<query, size, refined, sent, analysis, articles, users,
                   direct, searchArgs, validations, pureVars>>

\* the engine answers: search normalises, process_results starts and either
\* returns the fixed text or calls the backend
EngineReplies(resp) ==
    /\ pc = "es_search"
    /\ LET r == SearchResults(resp)
       IN  /\ searchOut' = SearchReturned(r)
           /\ IF ~NeedsBackend(r)
              THEN /\ analysis' = NoResultsText
                   /\ response' = SuccessResponse(query, r, NoResultsText, refined)
                   /\ calls' = Answered(calls, "ok", EngineAnswer(resp))
                   /\ pc' = "done"
              ELSE /\ calls' = Append(Answered(calls, "ok", EngineAnswer(resp)),
                                      Call("narrate"))
                   /\ pc' = "llm_narrate"
                   /\ UNCHANGED <<analysis, response>>
    /\ UNCHANGED <<query, size, refined, sent, articles, users,
                   direct, searchArgs, validations, pureVars>>

\* the backend answers the narration call (or raises); natural_search
\* builds the response
NarrateReply(reply) ==
    /\ pc = "llm_narrate"
    /\ LET a == NarrationResult(searchOut.results, reply)
       IN  /\ analysis' = a
           /\ response' = SuccessResponse(query, searchOut.results, a, refined)
    /\ calls' = Answered(calls, IF reply.kind = "fault" THEN "fault" ELSE "ok", reply)
    /\ pc' = "done"
    /\ UNCHANGED <<query, size, refined, sent, searchOut, articles, users,
                   direct, searchArgs, validations, pureVars>>

\* the response is sent; the service waits for the next request
Respond ==
    /\ pc = "done"
    /\ pc' = "idle"
    /\ UNCHANGED <<query, size, refined, calls, sent, searchOut, analysis,
                   response, articles, users, direct, searchArgs, validations,
                   pureVars>>

\* elasticsearch_search up to the validation call of validate_query
DirectRequest(index, body, sz) ==
    /\ pc = "idle"
    /\ direct' = DirectRequested(index, body)
    /\ size' = sz
    /\ query' = <<>>
    /\ refined' = Pending
    /\ calls' = <<Call("validate")>>
    /\ sent' = <<>>
    /\ searchArgs' = <<>>
    /\ validations' = <<>>
    /\ searchOut' = NoSearch
    /\ analysis' = NoAnalysis
    /\ response' = NoResponse
    /\ pc' = "es_validate"
    /\ UNCHANGED <<articles, users, pureVars>>

\* the engine answers the validation call (or raises): validate_query
\* returns, elasticsearch_search answers or drops the size of the body and
\* calls search
ValidateReply(reply) ==
    /\ pc = "es_validate"
    /\ LET v == Validation(direct.index, direct.query, reply)
           body == DirectSearchBody(direct.query)
           out == IF reply.kind = "fault" THEN "fault" ELSE "ok"
       IN  /\ validations' = Append(validations, v)
           /\ IF v.out.raised
              THEN /\ response' = InternalError
                   /\ calls' = Answered(calls, out, NoReply)
                   /\ pc' = "done"
                   /\ UNCHANGED <<sent, searchArgs>>
              ELSE IF ~Truthy(v.out.v)
              THEN /\ response' = InvalidQueryResponse(direct.query)
                   /\ calls' = Answered(calls, out, NoReply)
                   /\ pc' = "done"
                   /\ UNCHANGED <<sent, searchArgs>>
              ELSE /\ searchArgs' = Append(searchArgs, SearchArgs(direct.index, body, size))
                   /\ sent' = Append(sent, EngineRequest(direct.index, body, size))
                   /\ calls' = Append(Answered(calls, out, NoReply), Call("search"))
                   /\ pc' = "es_direct"
                   /\ UNCHANGED response
    /\ UNCHANGED <<query, size, refined, searchOut, analysis, articles, users,
                   direct, pureVars>>

\* the engine raises: search maps the exception, elasticsearch_search
\* answers every exception with HTTPException(500)
DirectEngineFails(fault) ==
    /\ pc = "es_direct"
    /\ searchOut' = SearchRaised(fault)
    /\ calls' = Answered(calls, "fault", NoReply)
    /\ response' = InternalError
    /\ pc' = "done"
    /\ UNCHANGED <<query, size, refined, sent, analysis, articles, users,
                   direct, searchArgs, validations, pureVars>>

\* the engine answers: search normalises, elasticsearch_search answers
DirectEngineReplies(resp) ==
    /\ pc = "es_direct"
    /\ LET r == SearchResults(resp)
       IN  /\ searchOut' = SearchReturned(r)
           /\ response' = DirectSuccessResponse(direct.query, r)
    /\ calls' = Answered(calls, "ok", EngineAnswer(resp))
    /\ pc' = "done"
    /\ UNCHANGED <<query, size, refined, sent, analysis, articles, users,
                   direct, searchArgs, validations, pureVars>>

Next ==
    \/ \E q \in Queries, sz \in Sizes : Request(q, sz)
    \/ \E index \in DirectIndices, body \in DirectBodies, sz \in Sizes :
           DirectRequest(index, body, sz)
    \/ \E reply \in ValidateReplies : ValidateReply(reply)
    \/ \E fault \in EngineFaults : DirectEngineFails(fault)
    \/ \E resp \in EngineResponses : DirectEngineReplies(resp)
    \/ \E reply \in StructuredReplies : StructuredReply(reply)
    \/ \E reply \in FreeReplies : FreeReply(reply)
    \/ \E fault \in EngineFaults : EngineFails(fault)
    \/ \E resp \in EngineResponses : EngineReplies(resp)
    \/ \E reply \in NarrationReplies : NarrateReply(reply)
    \/ Respond

Spec == Init /\ [][Next]_vars

-----------------------------------------------------------------------------
(* Properties of POST /search/natural *)

HasKey(m, word) == <<word>> \in DOMAIN m

RefineCalls == {i \in 1..Len(calls) : calls[i].mode \in {"structured", "free"}}

\* C1: the body natural search forwards to the engine holds no "size" and
\* no "from" key of the refined request.
C1_NoPaginationForwarded ==
    \A i \in 1..Len(sent) :
        ~HasKey(sent[i].body, "size") /\ ~HasKey(sent[i].body, "from")

\* C2: one refine calls the backend first in JSON mode; the plain-mode call
\* is the second call, is made only after the JSON-mode call faulted or gave
\* text that does not parse, and is made once; refine then returns what
\* _extract_json makes of the stripped plain text, or None, and what it
\* returns is a dict or None.
C2_RefineCallProtocol ==
    /\ (direct = NoDirect /\ calls # <<>>) => calls[1].mode = "structured"
    /\ \A i \in 1..Len(calls) : calls[i].mode = "structured" => i = 1
    /\ \A i \in 1..Len(calls) :
          calls[i].mode = "free" =>
              /\ i = 2
              /\ \/ calls[1].reply.kind = "fault"
                 \/ ~JsonLoads(calls[1].reply.content).ok
    /\ Cardinality(RefineCalls) <= 2
    /\ (refined # Pending /\ Len(calls) >= 2 /\ calls[2].mode = "free") =>
          refined \in {None, ExtractJson(PyStrip(calls[2].reply.content)).v}
    /\ refined # Pending => (refined = None \/ IsDict(refined))

\* a refine that took the plain-mode path and returned a request
C2_Witness ==
    /\ Len(calls) >= 2
    /\ calls[1].reply.kind = "text"
    /\ calls[2].mode = "free"
    /\ calls[2].out = "text"
    /\ refined # Pending
    /\ refined # None

BothRefineCallsFaulted ==
    /\ Len(calls) >= 2
    /\ calls[1].mode = "structured" /\ calls[1].out = "fault"
    /\ calls[2].mode = "free" /\ calls[2].out = "fault"

\* C3: when the JSON-mode call and the plain-mode call both fault, refine
\* returns None and natural search answers success=false, total_hits=0, no
\* results and an error text, as a response and not as an exception.
C3_BackendOutageEnvelope ==
    BothRefineCallsFaulted =>
        /\ refined = None
        /\ pc \in {"done", "idle"}
        /\ response.status = "ok"
        /\ response.success = FALSE
        /\ response.total_hits = 0
        /\ response.results = <<>>
        /\ response.error # ""
        /\ Len(calls) = 2

C3_Witness == BothRefineCallsFaulted /\ pc = "done"

\* C4: for a search response with total_hits = 0 (of natural search, the
\* caller of process_results), process_results returns the fixed no-results
\* text and the backend is not called for narration.
C4_NoHitsNoBackendCall ==
    (direct = NoDirect /\ searchOut.state = "returned"
         /\ searchOut.results.total_hits = 0) =>
        /\ analysis = NoResultsText
        /\ \A i \in 1..Len(calls) : calls[i].mode # "narrate"

\* a search that reports no total and still returns a page of hits
C4_Witness ==
    /\ searchOut.state = "returned"
    /\ searchOut.results.total_hits = 0
    /\ searchOut.results.results # <<>>
    /\ pc = "done"

NarrationFaulted ==
    /\ calls # <<>>
    /\ calls[Len(calls)].mode = "narrate"
    /\ calls[Len(calls)].reply.kind \in {"fault", "null"}

\* C5: when the narration call faults (or its answer cannot be used) on a
\* search response with total_hits > 0, process_results returns the fallback
\* text with that hit count, and natural search answers success=true with
\* the total_hits and the results of the search.
C5_NarrationFaultAbsorbed ==
    NarrationFaulted =>
        /\ searchOut.state = "returned"
        /\ searchOut.results.total_hits > 0
        /\ analysis.kind = "fallback"
        /\ analysis.count = searchOut.results.total_hits
        /\ response.status = "ok"
        /\ response.success = TRUE
        /\ response.total_hits = searchOut.results.total_hits
        /\ response.results = searchOut.results.results
        /\ response.analysis = analysis

\* a narration fault on a search whose total exceeds the page it returned
C5_Witness ==
    /\ NarrationFaulted
    /\ calls[Len(calls)].reply.kind = "fault"
    /\ pc = "done"
    /\ searchOut.results.total_hits > Len(searchOut.results.results)

\* C6: a missing collection or an unavailable engine ends natural search as
\* an internal error; the success=false envelope is answered only when
\* refinement gave nothing or the engine rejected the query.
C6_EngineFaultsAreInternalErrors ==
    /\ (direct = NoDirect /\ searchOut.state = "raised"
           /\ searchOut.fault # "RequestError") =>
          response.status = "internal_error"
    /\ (direct = NoDirect /\ response.status = "ok" /\ ~response.success) =>
          \/ refined = None
          \/ (searchOut.state = "raised" /\ searchOut.fault = "RequestError")

\* the fault kind the specification names for a fault of the client
NamedFaultKind(fault) ==
    CASE fault = "RequestError"  -> "InvalidQuery"
      [] fault = "NotFoundError" -> "CollectionNotFound"
      [] OTHER                   -> "EngineUnavailable"

\* C7: the exception search raises tells its caller which of the three fault
\* kinds happened: two faults raised as the same exception class are of the
\* same kind.
C7_FaultKindsDistinct ==
    searchOut.state = "raised" =>
        \A other \in EngineFaults :
            SearchRaise(other).type = searchOut.exc.type =>
                NamedFaultKind(other) = NamedFaultKind(searchOut.fault)

\* C11: for every call search(index, query, size), the body handed to the
\* engine is the caller's body plus track_total_hits, which is true when the
\* caller's body has no such key and the caller's value otherwise; the page
\* size handed to the engine is the size of the body when it has one, else
\* the size argument.
C11_EffectiveBodyAndSize ==
    /\ Len(sent) = Len(searchArgs)
    /\ \A i \in 1..Len(sent) :
          LET a == searchArgs[i]
              r == sent[i]
          IN  /\ r.index = a.index
              /\ DOMAIN r.body = (DOMAIN a.query) \cup {<<"track_total_hits">>}
              /\ \A k \in DOMAIN a.query : r.body[k] = a.query[k]
              /\ ~HasKey(a.query, "track_total_hits") =>
                    r.body[<<"track_total_hits">>] = Bool(TRUE)
              /\ r.size = IF HasKey(a.query, "size")
                          THEN a.query[<<"size">>] ELSE a.size

\* a search whose caller set track_total_hits to false and a size in the body
C11_Witness ==
    /\ sent # <<>>
    /\ HasKey(searchArgs[1].query, "track_total_hits")
    /\ sent[1].body[<<"track_total_hits">>] = Bool(FALSE)
    /\ HasKey(searchArgs[1].query, "size")
    /\ sent[1].size # searchArgs[1].size
    /\ searchOut.state = "returned"

\* C12: for a direct request whose body holds size 999 and whose URL size is
\* 10, the page size handed to the engine is 999.
C12_BodySizeWins ==
    (/\ direct.state = "requested"
     /\ HasKey(direct.query, "size")
     /\ direct.query[<<"size">>] = Num(<<"9", "9", "9">>)
     /\ size = Num(<<"1", "0">>)
     /\ sent # <<>>) =>
        sent[Len(sent)].size = Num(<<"9", "9", "9">>)

\* C13: every result document search returns holds every field of the
\* hit's _source with the value it has there.
C13_MetaNeverOverwrites ==
    searchOut.state = "returned" =>
        \A i \in 1..Len(searchOut.results.results) :
            \A k \in DOMAIN searchOut.results.raw_hits[i].source :
                searchOut.results.results[i][k] = searchOut.results.raw_hits[i].source[k]

\* C20: validate_query returns a boolean and raises nothing; it submits the
\* "query" entry of the body when the body has one and the body otherwise;
\* a fault of the validation call makes it return false.
C20_ValidateVerdict ==
    \A i \in 1..Len(validations) :
        LET v == validations[i]
        IN  /\ ~v.out.raised
            /\ v.out.v \in {Bool(TRUE), Bool(FALSE)}
            /\ v.submitted = IF HasKey(v.body, "query")
                              THEN v.body[<<"query">>] ELSE Obj(v.body)
            /\ v.reply.kind = "fault" => v.out.v = Bool(FALSE)

\* a validation call that faulted, answered as an invalid query
C20_Witness ==
    /\ validations # <<>>
    /\ validations[1].reply.kind = "fault"
    /\ validations[1].out = Returned(Bool(FALSE))
    /\ pc = "done"
    /\ response.status = "ok"
    /\ ~response.success

SearchCalls == {i \in 1..Len(calls) : calls[i].mode = "search"}

NarrateCalls == {i \in 1..Len(calls) : calls[i].mode = "narrate"}

\* C21: in one natural-search request the engine search is issued at most
\* once and only after refine returned a non-null request (every earlier
\* call is an answered refine call); the narration call is issued at most
\* once and only directly after the search returned; when refine returned
\* None neither the engine nor the narration is called.
C21_StepsSequential ==
    direct = NoDirect =>
        /\ Cardinality(SearchCalls) <= 1
        /\ Cardinality(NarrateCalls) <= 1
        /\ \A i \in SearchCalls :
              /\ refined \notin {Pending, None}
              /\ \A j \in 1..(i - 1) :
                    calls[j].mode \in {"structured", "free"} /\ calls[j].out # "pending"
        /\ \A i \in NarrateCalls :
              /\ i > 1
              /\ calls[i - 1].mode = "search"
              /\ calls[i - 1].out = "ok"
              /\ searchOut.state = "returned"
        /\ refined = None => (SearchCalls = {} /\ NarrateCalls = {} /\ sent = <<>>)

\* a request that made all four calls: both refine calls, the search and
\* the narration
C21_Witness ==
    /\ direct = NoDirect
    /\ pc = "done"
    /\ Len(calls) = 4
    /\ calls[2].mode = "free"
    /\ calls[3].mode = "search"
    /\ calls[4].mode = "narrate"
    /\ calls[4].out = "ok"

\* C22: for the empty query "" refine returns None, and natural search
\* answers (without raising) success=false, total_hits=0 and an error text.
C22_EmptyQueryNotRefined ==
    (direct = NoDirect /\ query = <<>> /\ refined # Pending) =>
        /\ refined = None
        /\ pc \in {"done", "idle"} =>
              /\ response.status = "ok"
              /\ response.success = FALSE
              /\ response.total_hits = 0
              /\ response.error # ""

AllowedIndices == {Str(<<"blog-articles">>), Str(<<"blog-users">>)}

\* C23: in every natural-search request that reaches search, the index
\* handed to it is one of blog-articles and blog-users, whatever object the
\* backend returned.
C23_IndexAllowed ==
    direct = NoDirect =>
        \A i \in 1..Len(searchArgs) : searchArgs[i].index \in AllowedIndices

\* the search calls the engine answered, natural or direct
AnsweredSearches == {i \in 1..Len(calls) : calls[i].mode = "search" /\ calls[i].out = "ok"}

\* C25: for every response of the engine, total_hits of what search returns
\* is the value under the response's total, 0 when there is none, however
\* many hits the page holds; results holds one entry per returned hit, in
\* the engine's order.
C25_TotalAndResults ==
    \A i \in AnsweredSearches :
        LET resp == calls[i].reply.resp
            out == searchOut.results
        IN  /\ searchOut.state = "returned"
            /\ out.total_hits = (IF resp.hasTotal THEN resp.total ELSE 0)
            /\ Len(out.results) = Len(resp.hits)
            /\ \A j \in 1..Len(resp.hits) :
                  /\ out.results[j][<<"__meta">>].id = resp.hits[j].id
                  /\ \A k \in (DOMAIN resp.hits[j].source) \ {<<"__meta">>} :
                        out.results[j][k] = resp.hits[j].source[k]

\* the engine reports a total of two and returns a page of one hit
C25_Witness ==
    \E i \in AnsweredSearches :
        LET resp == calls[i].reply.resp
        IN  /\ resp.hasTotal
            /\ resp.total = 2
            /\ Len(resp.hits) = 1
            /\ searchOut.results.total_hits = 2
            /\ Len(searchOut.results.results) = 1

\* a narration call that ended in a fault: the backend raised or gave no
\* content
FaultyNarrations == {reply \in NarrationReplies : reply.kind \in {"fault", "null"}}

\* C26: the fallback text of a faulted narration is determined by the hit
\* count alone: any other fault, on any search response with the same
\* total_hits, gives the same text.
C26_FallbackByCountAlone ==
    (direct = NoDirect /\ analysis.kind = "fallback") =>
        \A resp \in EngineResponses, other \in FaultyNarrations :
            SearchResults(resp).total_hits = searchOut.results.total_hits =>
                NarrationResult(SearchResults(resp), other) = analysis

\* C27: search leaves its inputs as they were: after a call the caller's
\* body holds the keys and values it held before (no track_total_hits is
\* added to it), and the raw hits of the response carry the documents as
\* the engine gave them, without the metadata block.
C27_InputsUnchanged ==
    /\ \A i \in 1..Len(searchArgs) :
          /\ searchArgs[i].after = searchArgs[i].query
          /\ ~HasKey(searchArgs[i].query, "track_total_hits") =>
                ~HasKey(searchArgs[i].after, "track_total_hits")
    /\ \A i \in AnsweredSearches :
          LET resp == calls[i].reply.resp
              raw == searchOut.results.raw_hits
          IN  /\ Len(raw) = Len(resp.hits)
              /\ \A j \in 1..Len(raw) :
                    /\ raw[j].source = resp.hits[j].source
                    /\ ~HasKey(resp.hits[j].source, "__meta") =>
                          ~HasKey(raw[j].source, "__meta")

\* a search whose own body got track_total_hits and whose results got the
\* metadata block, for a caller's body and a document that hold neither
C27_Witness ==
    /\ Len(searchArgs) = 1
    /\ ~HasKey(searchArgs[1].query, "track_total_hits")
    /\ HasKey(sent[1].body, "track_total_hits")
    /\ \E i \in AnsweredSearches :
          /\ Len(searchOut.results.raw_hits) >= 1
          /\ ~HasKey(calls[i].reply.resp.hits[1].source, "__meta")
          /\ HasKey(searchOut.results.results[1], "__meta")

\* C28: when the output of the JSON-mode call parses but is the empty
\* object or no object (array, number, string, null), refine returns None
\* and makes no plain-mode call; every result of refine other than None is
\* a non-empty object.
C28_ParsedNonObjectIsNull ==
    direct = NoDirect =>
        /\ (calls # <<>> /\ calls[1].out = "parsed") =>
              LET v == JsonLoads(calls[1].reply.content).v
              IN  (~IsDict(v) \/ v = Obj(EmptyMap)) =>
                      /\ refined = None
                      /\ \A i \in 1..Len(calls) : calls[i].mode # "free"
        /\ refined \notin {Pending, None} =>
              (IsDict(refined) /\ DOMAIN refined.m # {})

\* the JSON-mode call gave a number: the request ends after this one call
C28_Witness ==
    /\ direct = NoDirect
    /\ pc = "done"
    /\ Len(calls) = 1
    /\ calls[1].out = "parsed"
    /\ calls[1].reply.content = <<"7">>
    /\ refined = None

\* C29: in the direct endpoint the validation call comes before any search
\* call; when validate_query returns False no search is made and the
\* answer is success=false with total_hits=0, no results and an error text.
C29_ValidateBeforeSearch ==
    direct # NoDirect =>
        /\ calls # <<>> => calls[1].mode = "validate"
        /\ \A i \in SearchCalls :
              /\ i = 2
              /\ calls[1].out # "pending"
              /\ Len(validations) = 1
              /\ Truthy(validations[1].out.v)
        /\ (validations # <<>> /\ validations[1].out = Returned(Bool(FALSE))) =>
              /\ SearchCalls = {}
              /\ sent = <<>>
              /\ response.status = "ok"
              /\ response.success = FALSE
              /\ response.total_hits = 0
              /\ response.results = <<>>
              /\ response.error # ""

\* the engine found the query invalid: the request ended after the
\* validation call
C29_Witness ==
    /\ direct # NoDirect
    /\ pc = "done"
    /\ Len(calls) = 1
    /\ validations # <<>>
    /\ validations[1].reply = ValidateAnswer((<<"valid">> :> Bool(FALSE)))
    /\ validations[1].out = Returned(Bool(FALSE))
    /\ sent = <<>>
    /\ response = InvalidQueryResponse(direct.query)

-----------------------------------------------------------------------------
(* _extract_json on its own: an input text is put together, then extracted *)

MaxDepth == 3      \* deepest nesting of the objects wrapped
MaxPieces == 4     \* most pieces a free-form text is made of

Leaves == {<<"1">>, S("a")}

\* the texts of the objects nested up to depth d, innermost value a leaf
RECURSIVE ObjTexts(_)
ObjTexts(d) ==
    IF d = 1
    THEN {<<"{">> \o K("a") \o leaf \o <<"}">> : leaf \in Leaves}
    ELSE ObjTexts(d - 1)
         \cup {<<"{">> \o K("a") \o inner \o <<"}">> : inner \in ObjTexts(d - 1)}
         \cup {<<"{">> \o K("a") \o inner \o <<",">> \o K("b") \o <<"1">> \o <<"}">> :
                  inner \in ObjTexts(d - 1)}

\* values a model may put inside a fenced block
FencedValues == {<<"{", "}">>, <<"1">>, <<"[", "1", "]">>} \cup ObjTexts(1)

Wraps == {"plain", "outer", "doubled", "fenced", "fenced_open", "prose",
          "padded", "fence_in_string"}

\* every brace of the text doubled
Doubled(o) ==
    PyReplace(PyReplace(o, <<"{">>, <<"{", "{">>), <<"}">>, <<"}", "}">>)

\* the raw text made of the text o of a value
WrapText(wrap, o) ==
    CASE wrap = "plain"           -> o
      [] wrap = "outer"           -> <<"{">> \o o \o <<"}">>
      [] wrap = "doubled"         -> Doubled(o)
      [] wrap = "fenced"          -> <<"{", "x", "}", SP>> \o FenceOpen \o <<NL>> \o o
                                         \o <<NL>> \o Fence
      [] wrap = "fenced_open"     -> FenceOpen \o <<NL>> \o o
      [] wrap = "prose"           -> <<"Sure", SP>> \o o \o <<SP, "ok">>
      [] wrap = "padded"          -> <<SP>> \o o \o <<NL>>
      [] wrap = "fence_in_string" -> <<"{">> \o K("a") \o <<DQ>> \o FenceOpen \o o
                                         \o Fence \o <<DQ, "}">>
      [] OTHER                    -> o

Pieces ==
    {<<"{">>, <<"}">>, FenceOpen, Fence, <<"1">>, K("a"), <<SP>>, <<"x">>}

\* the texts made of at most n pieces
RECURSIVE PieceTexts(_)
PieceTexts(n) ==
    IF n = 0 THEN {<<>>}
    ELSE PieceTexts(n - 1)
         \cup {t \o piece : t \in PieceTexts(n - 1), piece \in Pieces}

ExtractInputs ==
    {[wrap |-> w, obj |-> o] : w \in Wraps \ {"fence_in_string"}, o \in ObjTexts(MaxDepth)}
    \cup {[wrap |-> w, obj |-> o] : w \in {"fenced", "fenced_open", "fence_in_string"},
                                    o \in FencedValues}
    \cup {[wrap |-> "raw", obj |-> t] : t \in PieceTexts(MaxPieces)}

InitExtract ==
    /\ pc = "extract_ready"
    /\ parts \in ExtractInputs
    /\ text = WrapText(parts.wrap, parts.obj)
    /\ extracted = Returned(None)
    /\ query = <<>>
    /\ size = Num(<<"1", "0">>)
    /\ refined = Pending
    /\ calls = <<>>
    /\ sent = <<>>
    /\ searchOut = NoSearch
    /\ analysis = NoAnalysis
    /\ response = NoResponse
    /\ articles = NoFields
    /\ users = NoFields
    /\ direct = NoDirect
    /\ searchArgs = <<>>
    /\ validations = <<>>
    /\ file = NoFile
    /\ sheet = NoSheet
    /\ cleaned = <<>>
    /\ run = NoRun

\* _extract_json(text)
ExtractCall ==
    /\ pc = "extract_ready"
    /\ extracted' = ExtractJson(text)
    /\ pc' = "extract_done"
    /\ UNCHANGED <<query, size, refined, calls, sent, searchOut, analysis,
                   response, articles, users, direct, searchArgs, validations,
                   text, parts, file, sheet, cleaned, run>>

NextExtract == ExtractCall

SpecExtract == InitExtract /\ [][NextExtract]_vars

\* C8: for an object o of any nesting depth, the text of o wrapped in one
\* more pair of braces is extracted to the same object as the text of o.
C8_DoubledBracesUnwrap ==
    (pc = "extract_done" /\ parts.wrap = "outer") =>
        /\ extracted = ExtractJson(parts.obj)
        /\ extracted.v = JsonLoads(parts.obj).v

\* the result the specification's order of strategies gives: the whole text
\* when it parses as an object, else the fenced block, else the brace span
DirectParseFirst(s) ==
    LET whole == JsonLoads(s)
        fenced == JsonLoads(CollapseBraces(FencedCandidate(s)))
        braces == JsonLoads(CollapseBraces(BraceCandidate(s)))
    IN  IF s = <<>> THEN None
        ELSE IF whole.ok /\ IsDict(whole.v) THEN whole.v
        ELSE IF PyIn(FenceOpen, s) /\ fenced.ok THEN fenced.v
        ELSE IF braces.ok THEN braces.v
        ELSE None

\* C9 as claimed: the direct parse of the whole text comes first, so a text
\* that parses as an object is returned as that object.
C9_DirectParseFirst ==
    pc = "extract_done" =>
        /\ extracted.v = DirectParseFirst(text)
        /\ (JsonLoads(text).ok /\ IsDict(JsonLoads(text).v)) =>
              extracted.v = JsonLoads(text).v

\* C9 as amended: there is no direct parse.  The interior of the block
\* fenced as json is returned when it parses, before any brace span (also
\* when the whole text is an object and the fence sits inside a string of
\* it); when the fenced block does not parse the widest brace span is
\* returned; a text that parses as an object and holds no json fence is
\* returned as that object.
C9_FencedThenBraces ==
    pc = "extract_done" =>
        /\ parts.wrap \in {"fenced", "fence_in_string"} =>
              extracted.v = JsonLoads(parts.obj).v
        /\ (parts.wrap = "fenced_open" /\ IsDict(JsonLoads(parts.obj).v)) =>
              extracted.v = JsonLoads(parts.obj).v
        /\ (JsonLoads(text).ok /\ IsDict(JsonLoads(text).v) /\ ~PyIn(FenceOpen, text)) =>
              extracted.v = JsonLoads(text).v

\* a text that is an object as a whole and holds a fenced object in a string
C9_Witness ==
    /\ pc = "extract_done"
    /\ parts.wrap = "fence_in_string"
    /\ JsonLoads(text).ok
    /\ IsDict(extracted.v)
    /\ extracted.v # JsonLoads(text).v

\* C10: for every text, _extract_json returns a dict or None and raises
\* nothing.
C10_ObjectOrNone ==
    pc = "extract_done" =>
        /\ ~extracted.raised
        /\ (extracted.v = None \/ IsDict(extracted.v))

-----------------------------------------------------------------------------
(* MappingView on its own: a mapping file is loaded, then rendered *)

TypeText(t) == <<"{">> \o K("type") \o S(t) \o <<"}">>      \* {"type": "t"}

\* the entries a file may hold under "properties"
PropPool ==
    << K("title") \o TypeText("text"),
       K("author_name") \o TypeText("text"),
       K("full_name") \o TypeText("text"),
       K("full_name.keyword") \o TypeText("keyword"),
       K("title") \o <<"{">> \o K("properties") \o <<"{">> \o K("keyword")
           \o TypeText("keyword") \o <<"}", "}">>,
       K("created_at") \o TypeText("date"),
       K("tags") \o <<"{", "}">>,
       K("zip") \o TypeText("keyword"),
       K("stats") \o <<"{">> \o K("properties") \o <<"{">> \o K("views")
           \o TypeText("long") \o <<"}", "}">> >>

\* the entries chosen by the set S of positions, comma separated
RECURSIVE PropsFrom(_, _)
PropsFrom(chosen, i) ==
    IF i > Len(PropPool) THEN <<>>
    ELSE IF i \in chosen
         THEN PropPool[i] \o (IF \E j \in chosen : j > i THEN <<",">> ELSE <<>>)
                  \o PropsFrom(chosen, i + 1)
         ELSE PropsFrom(chosen, i + 1)

MappingText(chosen) ==
    <<"{">> \o K("mappings") \o <<"{">> \o K("properties") \o <<"{">>
        \o PropsFrom(chosen, 1) \o <<"}", "}", "}">>

\* texts json.load rejects
BrokenTexts ==
    { <<>>, <<"{">> \o K("mappings"), <<"version", SP, "1">> }

\* texts json.load accepts that are no mapping
OddTexts ==
    { <<"[", "1", "]">>,
      <<"{", "}">>,
      <<"{">> \o K("mappings") \o <<"null", "}">>,
      <<"{">> \o K("mappings") \o <<"1", "}">>,
      <<"{">> \o K("mappings") \o <<"{">> \o K("properties") \o <<"{">>
          \o K("title") \o S("text") \o <<"}", "}", "}">> }

TextFile(t) == [state |-> "ok", content |-> t]

MappingFiles ==
    { [state |-> "missing", content |-> <<>>],
      [state |-> "unreadable", content |-> <<>>] }
    \cup {TextFile(t) : t \in BrokenTexts \cup OddTexts}
    \cup {TextFile(MappingText(chosen)) : chosen \in SUBSET (1..Len(PropPool))}

IndexNames == {"blog-articles", "blog-users"}

InitDigest ==
    /\ pc = "load_ready"
    /\ file \in MappingFiles
    /\ articles = NoFields
    /\ sheet = NoSheet
    /\ users = NoFields
    /\ query = <<>>
    /\ size = Num(<<"1", "0">>)
    /\ refined = Pending
    /\ calls = <<>>
    /\ sent = <<>>
    /\ searchOut = NoSearch
    /\ analysis = NoAnalysis
    /\ response = NoResponse
    /\ direct = NoDirect
    /\ searchArgs = <<>>
    /\ validations = <<>>
    /\ text = <<>>
    /\ parts = [wrap |-> "none", obj |-> <<>>]
    /\ extracted = Returned(None)
    /\ cleaned = <<>>
    /\ run = NoRun

\* MappingView.from_file(path)
LoadFile ==
    /\ pc = "load_ready"
    /\ LET d == FromFile(file)
       IN  IF d.raised
           THEN /\ pc' = "load_raised"
                /\ articles' = articles
           ELSE /\ pc' = "loaded"
                /\ articles' = d.fields
    /\ UNCHANGED <<query, size, refined, calls, sent, searchOut, analysis,
                   response, users, direct, searchArgs, validations,
                   text, parts, extracted, file, sheet, cleaned, run>>

\* cheatsheet(index_name) on the loaded view
Render(index_name) ==
    /\ pc \in {"loaded", "rendered"}
    /\ sheet' = Cheatsheet(index_name, articles)
    /\ articles' = CheatsheetFields(articles)
    /\ pc' = "rendered"
    /\ UNCHANGED <<query, size, refined, calls, sent, searchOut, analysis,
                   response, users, direct, searchArgs, validations,
                   text, parts, extracted, file, cleaned, run>>

NextDigest ==
    \/ LoadFile
    \/ \E index_name \in IndexNames : Render(index_name)

SpecDigest == InitDigest /\ [][NextDigest]_vars

\* C14: once the view is loaded no operation changes it: after any number
\* of renders its fields and their types are those from_file produced.
C14_DigestNeverMutated ==
    pc \in {"loaded", "rendered"} => articles = FromFile(file).fields

\* open or json.load raises on the file
Unloadable(f) == f.state # "ok" \/ ~JsonLoads(f.content).ok

\* C15: when the mapping file is missing, unreadable or no JSON, from_file
\* raises nothing and returns a view without fields, and cheatsheet on that
\* view raises nothing and lists no field.
C15_UnloadableFileEmptyDigest ==
    Unloadable(file) =>
        /\ pc # "load_raised"
        /\ articles = NoFields
        /\ sheet.entries = <<>>

\* a file that is no JSON, loaded and rendered
C15_Witness ==
    /\ file.state = "ok"
    /\ file.content # <<>>
    /\ Unloadable(file)
    /\ pc = "rendered"
    /\ sheet.index = "blog-users"

\* how many entries of the last cheatsheet name the field
ListedTimes(name) ==
    Cardinality({i \in 1..Len(sheet.entries) : sheet.entries[i][1] = name})

\* C16 as claimed: for each base field b of title, author_name, full_name
\* the cheatsheet lists b.keyword once when the view holds b and not at all
\* when it does not.
C16_KeywordListedIffBase ==
    pc = "rendered" =>
        \A b \in KeywordBases :
            ListedTimes(b \o ".keyword") = IF b \in DOMAIN articles THEN 1 ELSE 0

\* C16 as amended: the cheatsheet lists b.keyword once when the view holds
\* b, and never more than once, also when the mapping already holds
\* b.keyword and after repeated renders; when the view does not hold b, it
\* lists b.keyword exactly when the mapping itself holds a field of that
\* name.
C16_KeywordListedOnce ==
    pc = "rendered" =>
        \A b \in KeywordBases :
            /\ ListedTimes(b \o ".keyword") <= 1
            /\ b \in DOMAIN articles => ListedTimes(b \o ".keyword") = 1
            /\ b \notin DOMAIN articles =>
                  (ListedTimes(b \o ".keyword") = 1
                      <=> (b \o ".keyword") \in DOMAIN FromFile(file).fields)

\* a mapping that holds full_name and full_name.keyword and, of title, only
\* title.keyword
C16_Witness ==
    /\ pc = "rendered"
    /\ {"full_name", "full_name.keyword"} \subseteq DOMAIN FromFile(file).fields
    /\ ListedTimes("full_name.keyword") = 1
    /\ "title" \notin DOMAIN articles
    /\ ListedTimes("title.keyword") = 1
    /\ "author_name" \in DOMAIN articles
    /\ "author_name.keyword" \notin DOMAIN FromFile(file).fields

Listed(name) == \E i \in 1..Len(PreferredOrder) : PreferredOrder[i] = name

ListedAt(name) == CHOOSE i \in 1..Len(PreferredOrder) : PreferredOrder[i] = name

\* C24: cheatsheet lists the fields of the view that preferred_order holds
\* first, in the order of preferred_order, and then every other field in
\* the order of their names; rendering the view again for the same index
\* name gives the same text.
C24_PreferredThenByName ==
    pc = "rendered" =>
        /\ \A i, j \in 1..Len(sheet.entries) :
              i < j =>
                  LET a == sheet.entries[i][1]
                      b == sheet.entries[j][1]
                  IN  IF Listed(a)
                      THEN Listed(b) => ListedAt(a) < ListedAt(b)
                      ELSE ~Listed(b) /\ NameLess(a, b)
        /\ Cheatsheet(sheet.index, articles) = sheet

\* a rendered text that holds listed fields and, after them, two fields
\* preferred_order does not hold
C24_Witness ==
    /\ pc = "rendered"
    /\ \E i, j, k \in 1..Len(sheet.entries) :
          /\ i < j /\ j < k
          /\ sheet.entries[i][1] = "created_at"
          /\ sheet.entries[j][1] = "stats.views"
          /\ sheet.entries[k][1] = "zip"
    /\ \E i \in 1..Len(sheet.entries) : sheet.entries[i][1] = "title"

-----------------------------------------------------------------------------
(* The cleanup of process_results on its own: an answer of the backend is
   stripped and cleaned *)

MaxChars == 4      \* longest answer of the backend

AnswerChars == {DQ, SQ, BS, "n", "t", "x", SP}

\* the answers of at most n characters
RECURSIVE Answers(_)
Answers(n) ==
    IF n = 0 THEN {<<>>}
    ELSE Answers(n - 1) \cup {a \o <<c>> : a \in Answers(n - 1), c \in AnswerChars}

InitCleanup ==
    /\ pc = "cleanup_ready"
    /\ text \in Answers(MaxChars)
    /\ analysis = NoAnalysis
    /\ articles = NoFields
    /\ users = NoFields
    /\ query = <<>>
    /\ size = Num(<<"1", "0">>)
    /\ refined = Pending
    /\ calls = <<>>
    /\ sent = <<>>
    /\ searchOut = NoSearch
    /\ response = NoResponse
    /\ direct = NoDirect
    /\ searchArgs = <<>>
    /\ validations = <<>>
    /\ parts = [wrap |-> "none", obj |-> <<>>]
    /\ extracted = Returned(None)
    /\ file = NoFile
    /\ sheet = NoSheet
    /\ cleaned = <<>>
    /\ run = NoRun

\* analysis = message.content.strip(), then the cleanup
CleanupCall ==
    /\ pc = "cleanup_ready"
    /\ analysis' = Narrated(CleanupAnalysis(PyStrip(text)))
    /\ pc' = "cleanup_done"
    /\ UNCHANGED <<query, size, refined, calls, sent, searchOut, response,
                   articles, users, direct, searchArgs, validations, pureVars>>

NextCleanup == CleanupCall

SpecCleanup == InitCleanup /\ [][NextCleanup]_vars

\* no wrapping quotes, no doubled quote characters and no literal
\* backslash-quote, backslash-n or backslash-t
Clean(a) ==
    /\ ~(PyStartsWith(a, <<DQ>>) /\ PyEndsWith(a, <<DQ>>))
    /\ ~(PyStartsWith(a, <<SQ>>) /\ PyEndsWith(a, <<SQ>>))
    /\ ~PyIn(<<DQ, DQ>>, a)
    /\ ~PyIn(<<SQ, SQ>>, a)
    /\ ~PyIn(<<BS, DQ>>, a)
    /\ ~PyIn(<<BS, "n">>, a)
    /\ ~PyIn(<<BS, "t">>, a)

\* C17: a string without wrapping quotes and without escape artifacts
\* leaves the cleanup as it entered it.
C17_CleanTextUnchanged ==
    (pc = "cleanup_done" /\ Clean(PyStrip(text))) =>
        analysis = Narrated(PyStrip(text))

\* a clean answer that holds quotes and backslashes
C17_Witness ==
    /\ pc = "cleanup_done"
    /\ Clean(PyStrip(text))
    /\ PyIn(<<DQ>>, text)
    /\ PyIn(<<BS, BS>>, text)
    /\ PyIn(<<SQ>>, text)
    /\ analysis = Narrated(text)

\* C18: the cleanup is idempotent: cleaning what it returned returns the
\* same text.
C18_CleanupIdempotent ==
    pc = "cleanup_done" =>
        CleanupAnalysis(analysis.text) = analysis.text

-----------------------------------------------------------------------------
(* The result subset process_results puts in the prompt.  The strings of
   this part are made of single characters, so that Len is len. *)

DocLimit == 5        \* results[:5]
StrLimit == 200      \* value[:200]
ListLimit == 10      \* value[:10]
ItemLimit == 100     \* item[:100]
ReprLimit == 100     \* str(value)[:100]

\* str(v) of a value (strings without quotes or backslashes; the entries
\* of a dict in an order the model fixes)
RECURSIVE PyRepr(_)
RECURSIVE ReprItems(_, _)
RECURSIVE ReprMembers(_)

PyRepr(v) ==
    CASE v.t = "str"  -> <<SQ>> \o v.s \o <<SQ>>
      [] v.t = "num"  -> v.d
      [] v.t = "bool" -> IF v.b THEN <<"T", "r", "u", "e">>
                         ELSE <<"F", "a", "l", "s", "e">>
      [] v.t = "null" -> <<"N", "o", "n", "e">>
      [] v.t = "arr"  -> <<"[">> \o ReprItems(v.e, 1) \o <<"]">>
      [] v.t = "obj"  -> <<"{">> \o ReprMembers(v.m) \o <<"}">>

ReprItems(e, i) ==
    IF i > Len(e) THEN <<>>
    ELSE PyRepr(e[i]) \o (IF i < Len(e) THEN <<",", SP>> ELSE <<>>)
             \o ReprItems(e, i + 1)

ReprMembers(m) ==
    IF DOMAIN m = {} THEN <<>>
    ELSE LET k == CHOOSE k \in DOMAIN m : TRUE
             rest == [j \in (DOMAIN m) \ {k} |-> m[j]]
         IN  <<SQ>> \o k \o <<SQ, ":", SP>> \o PyRepr(m[k])
                 \o (IF DOMAIN rest = {} THEN <<>> ELSE <<",", SP>> \o ReprMembers(rest))

\* all(isinstance(item, str) for item in value)
AllStrings(e) == \A i \in 1..Len(e) : e[i].t = "str"

\* the value stored in cleaned_result for a value of the document
CleanValue(v) ==
    CASE v.t = "str"           -> Str(PySlice(v.s, 0, StrLimit))
      [] v.t \in {"num", "bool"} -> v
      [] v.t = "arr"           ->
            IF AllStrings(v.e)
            THEN Arr([i \in 1..Min(Len(v.e), ListLimit) |->
                         Str(PySlice(v.e[i].s, 0, ItemLimit))])
            ELSE Str(PySlice(PyRepr(v), 0, ReprLimit))
      [] OTHER                 -> Str(PySlice(PyRepr(v), 0, ReprLimit))

CleanResult(doc) == [k \in DOMAIN doc |-> CleanValue(doc[k])]

\* every result document cleaned, not only the first five
CleanedResultsAll(results) ==
    [i \in 1..Len(results) |-> CleanResult(results[i])]

\* cleaned_results
CleanedResults(results) ==
    [i \in 1..Min(Len(results), DocLimit) |-> CleanResult(results[i])]

MaxResults == 6      \* most result documents of a search response

Chars(n) == [i \in 1..n |-> "x"]      \* a string of n characters

\* result documents with values at and over the limits
PromptDocs ==
    { (<<"title">> :> Str(Chars(201))) @@ (<<"likes">> :> Num(<<"3">>))
          @@ (<<"is_published">> :> Bool(TRUE))
          @@ (<<"tags">> :> Arr([i \in 1..11 |-> Str(Chars(101))])),
      (<<"title">> :> Str(Chars(200))) @@ (<<"tags">> :> Arr(<<Str(Chars(100))>>))
          @@ (<<"summary">> :> None)
          @@ (<<"__meta">> :> Obj((<<"i", "d">> :> Str(Chars(120))))),
      (<<"title">> :> Str(<<>>)) @@ (<<"tags">> :> Arr(<<Str(Chars(2)), Num(<<"1">>)>>))
          @@ (<<"followers">> :> Arr(<<Num(<<"7">>), Str(Chars(150))>>))
          @@ (<<"__meta">> :> Obj(EmptyMap)) }

PromptResults == UNION {[1..n -> PromptDocs] : n \in 0..MaxResults}

InitPrompt ==
    /\ pc = "prompt_ready"
    /\ \E docs \in PromptResults, n \in {0, 1, 40} :
          searchOut = SearchReturned([total_hits |-> n, results |-> docs,
                                      raw_hits |-> <<>>])
    /\ cleaned = <<>>
    /\ analysis = NoAnalysis
    /\ articles = NoFields
    /\ users = NoFields
    /\ query = <<>>
    /\ size = Num(<<"1", "0">>)
    /\ refined = Pending
    /\ calls = <<>>
    /\ sent = <<>>
    /\ response = NoResponse
    /\ direct = NoDirect
    /\ searchArgs = <<>>
    /\ validations = <<>>
    /\ text = <<>>
    /\ parts = [wrap |-> "none", obj |-> <<>>]
    /\ extracted = Returned(None)
    /\ file = NoFile
    /\ sheet = NoSheet
    /\ run = NoRun

\* process_results up to the prompt: the early return on no hits, else the
\* cleaned subset
PromptCall ==
    /\ pc = "prompt_ready"
    /\ IF ~NeedsBackend(searchOut.results)
       THEN /\ analysis' = NoResultsText
            /\ cleaned' = cleaned
            /\ pc' = "prompt_skipped"
       ELSE /\ cleaned' = CleanedResults(searchOut.results.results)
            /\ analysis' = analysis
            /\ pc' = "prompt_done"
    /\ UNCHANGED <<query, size, refined, calls, sent, searchOut, response,
                   articles, users, direct, searchArgs, validations,
                   text, parts, extracted, file, sheet, run>>

NextPrompt == PromptCall

SpecPrompt == InitPrompt /\ [][NextPrompt]_vars

\* a list of strings only
StringList(v) == v.t = "arr" /\ AllStrings(v.e)

\* C19: for a search response with total_hits > 0, the cleaned subset holds
\* the first 5 result documents at most; in it every string has at most 200
\* characters, every list holds at most 10 strings of at most 100
\* characters, and every value that is no string, number, boolean or list
\* of strings has become a string of at most 100 characters.
C19_PromptSubsetBounded ==
    pc = "prompt_done" =>
        LET results == searchOut.results.results
        IN  /\ Len(cleaned) <= DocLimit
            /\ Len(cleaned) <= Len(results)
            /\ \A i \in 1..Len(cleaned) :
                  /\ DOMAIN cleaned[i] = DOMAIN results[i]
                  /\ \A k \in DOMAIN cleaned[i] :
                        LET v == cleaned[i][k]
                            o == results[i][k]
                        IN  /\ v.t \in {"str", "num", "bool", "arr"}
                            /\ v.t = "str" => Len(v.s) <= StrLimit
                            /\ v.t = "arr" =>
                                  /\ Len(v.e) <= ListLimit
                                  /\ \A j \in 1..Len(v.e) :
                                        v.e[j].t = "str" /\ Len(v.e[j].s) <= ItemLimit
                            /\ (o.t \notin {"str", "num", "bool"} /\ ~StringList(o)) =>
                                  v.t = "str" /\ Len(v.s) <= ReprLimit

\* more than five documents, the first with a string and a list over the
\* limits and the second with a metadata block
C19_Witness ==
    /\ pc = "prompt_done"
    /\ Len(searchOut.results.results) > DocLimit
    /\ Len(cleaned) = DocLimit
    /\ Len(searchOut.results.results[1][<<"title">>].s) > StrLimit
    /\ Len(cleaned[1][<<"title">>].s) = StrLimit
    /\ Len(cleaned[1][<<"tags">>].e) = ListLimit
    /\ <<"__meta">> \in DOMAIN cleaned[2]
    /\ Len(cleaned[2][<<"__meta">>].s) = ReprLimit

-----------------------------------------------------------------------------
(* main.py on its own: one run of the command line over a data file.  A
   data set is the user ids it holds, the author_id of its article and one
   entry of a user's following list. *)

\* the options of one run: the action of the exclusive group and
\* --skip-validation
CliActions == {"setup", "load_all", "load_data", "validate", "api"}

CliArgs == [action : CliActions, skip_validation : BOOLEAN]

NoFollow == <<0, 0>>        \* no user follows anybody

\* the data files: absent, or users, the author of the article and one
\* follow entry <<user, followed>>
Datasets ==
    [exists : BOOLEAN, users : {{1}, {1, 2}}, author : {1, 2, 3},
     follow : {NoFollow, <<1, 1>>, <<1, 2>>, <<1, 3>>}]

\* the errors validate_blog_data reports: an author that is no user, a
\* user that follows themselves, a followed user that does not exist
ValidationErrors(d) ==
    {e \in {"author", "self", "missing"} :
        \/ e = "author" /\ d.author \notin d.users
        \/ e = "self" /\ d.follow # NoFollow /\ d.follow[2] = d.follow[1]
        \/ e = "missing" /\ d.follow # NoFollow /\ d.follow[2] # d.follow[1]
                         /\ d.follow[2] \notin d.users /\ d.follow[2] # 0}

\* load_data_file(validate_relationships): whether it raised, and whether
\* it ran the relationship validation
LoadDataFile(d, validate_relationships) ==
    IF ~d.exists THEN [raised |-> TRUE, validated |-> FALSE]
    ELSE IF validate_relationships
         THEN [raised |-> ValidationErrors(d) # {}, validated |-> TRUE]
         ELSE [raised |-> FALSE, validated |-> FALSE]

\* the state of a run: options, data file, whether the setup of the engine
\* succeeds, the number of relationship validations so far, whether the
\* data was loaded into the engine, the exit code
Started(args, d, setup_ok) ==
    [state |-> "started", args |-> args, data |-> d, setup_ok |-> setup_ok,
     validated |-> 0, loaded |-> FALSE, exit |-> "none"]

Exited(r, code) == [r EXCEPT !.exit = code]

\* the run with one more validation counted when the call validated
Counted(r, call) == [r EXCEPT !.validated = @ + (IF call.validated THEN 1 ELSE 0)]

InitLoad ==
    /\ pc = "cli_ready"
    /\ \E args \in CliArgs, d \in Datasets, setup_ok \in BOOLEAN :
          run = Started(args, d, setup_ok)
    /\ query = <<>>
    /\ size = Num(<<"1", "0">>)
    /\ refined = Pending
    /\ calls = <<>>
    /\ sent = <<>>
    /\ searchOut = NoSearch
    /\ analysis = NoAnalysis
    /\ response = NoResponse
    /\ articles = NoFields
    /\ users = NoFields
    /\ direct = NoDirect
    /\ searchArgs = <<>>
    /\ validations = <<>>
    /\ text = <<>>
    /\ parts = [wrap |-> "none", obj |-> <<>>]
    /\ extracted = Returned(None)
    /\ file = NoFile
    /\ sheet = NoSheet
    /\ cleaned = <<>>

LoadFrame ==
    UNCHANGED <<query, size, refined, calls, sent, searchOut, analysis,
                response, articles, users, direct, searchArgs, validations,
                text, parts, extracted, file, sheet, cleaned>>

\* main up to the first load of the data file: --api, --validate and
\* --setup end the run; the loading actions read the file with
\* validate_relationships = not args.skip_validation
MainStart ==
    /\ pc = "cli_ready"
    /\ LET a == run.args.action
           checked == LoadDataFile(run.data, TRUE)
           first == LoadDataFile(run.data, ~run.args.skip_validation)
       IN  CASE a = "api" ->
                  /\ run' = Exited(run, "serving")
                  /\ pc' = "cli_exited"
             [] a = "validate" ->
                  /\ run' = Exited(Counted(run, checked),
                                   IF checked.raised THEN "exit_1" ELSE "exit_0")
                  /\ pc' = "cli_exited"
             [] a = "setup" ->
                  /\ run' = Exited(run, IF run.setup_ok THEN "exit_0" ELSE "exit_1")
                  /\ pc' = "cli_exited"
             [] OTHER ->
                  IF first.raised
                  THEN /\ run' = Exited(Counted(run, first), "exit_1")
                       /\ pc' = "cli_exited"
                  ELSE /\ run' = Counted(run, first)
                       /\ pc' = "data_read"
    /\ LoadFrame

\* --load-all: setup_elasticsearch before the load
MainSetup ==
    /\ pc = "data_read"
    /\ run.args.action = "load_all"
    /\ IF run.setup_ok
       THEN /\ run' = run
            /\ pc' = "setup_done"
       ELSE /\ run' = Exited(run, "exit_1")
            /\ pc' = "cli_exited"
    /\ LoadFrame

\* load_all(): it reads the data file again with load_data_file(), then
\* loads the users and the articles
LoadAll ==
    /\ \/ pc = "setup_done"
       \/ pc = "data_read" /\ run.args.action = "load_data"
    /\ LET again == LoadDataFile(run.data, TRUE)
       IN  IF again.raised
           THEN run' = Exited(Counted(run, again), "exit_1")
           ELSE run' = [Exited(Counted(run, again), "exit_0") EXCEPT !.loaded = TRUE]
    /\ pc' = "cli_exited"
    /\ LoadFrame

NextLoad ==
    \/ MainStart
    \/ MainSetup
    \/ LoadAll

SpecLoad == InitLoad /\ [][NextLoad]_vars

\* C30: with --skip-validation and --load-data or --load-all the
\* relationship validation is not run at any point, so a data set with
\* relationship errors is loaded all the same (when the file exists and the
\* setup of --load-all succeeds).
C30_SkipValidationSkips ==
    (run.args.skip_validation /\ run.args.action \in {"load_data", "load_all"}) =>
        /\ run.validated = 0
        /\ (pc = "cli_exited" /\ run.data.exists
               /\ (run.args.action = "load_all" => run.setup_ok)) => run.loaded

====
